---------------------------- MODULE Spec2Model ----------------------------
(***************************************************************************)
(* Model of the moluscoyield program (programs/moluscoyield/src/lib.rs):   *)
(* an Anchor program keeping, per owner and agent name, a Vault account    *)
(* and, per vault, Position accounts.  One action of the model is one      *)
(* instruction of the program, run as the runtime runs it: the account     *)
(* validation of the #[derive(Accounts)] struct, then the handler, then    *)
(* the exit step (write-back, `close = owner`).  An instruction that       *)
(* returns an error or panics commits nothing.                             *)
(***************************************************************************)
EXTENDS Integers, Sequences, FiniteSets, TLC

VARIABLES
    now,              \* Clock::get()?.unix_timestamp
    vaults,           \* the Vault accounts that exist, by address
    positions,        \* the Position accounts that exist, by address
    last              \* the last instruction processed: its name and its result

vars == <<now, vaults, positions, last>>

(***************************************************************************)
(* Bounds of the model.  MaxAccounts caps the accounts (vaults and         *)
(* positions) that exist at once.  The integer widths are scaled down to   *)
(* 2, 1 and 0 bits: u64, u16 and u8 keep their order and their             *)
(* wrap-around, on small ranges.  The inputs of the instructions are drawn *)
(* from the sets below; B is a signer that owns no vault.                  *)
(***************************************************************************)
MaxAccounts == 3

U64_MAX == 2^2 - 1
U16_MAX == 2^1 - 1
U8_MAX == 2^0 - 1
Times == {1, 2}

Owners == {"A"}
Signers == Owners \cup {"B"}
AgentNames == {"agent1", "agent2"}
Protocols == {<<1>>}
Strategies == {"Liquid Staking"}
Assets == {<<1>>, <<2>>}
Amounts == {1, U64_MAX}
TargetApys == {800}
CurrentValues == {0, U64_MAX}

(***************************************************************************)
(* Addresses.  A program-derived address hashes the seeds one after the    *)
(* other: the string seeds are modelled by their concatenation.            *)
(***************************************************************************)
VaultPda(owner, agent_name) == <<"vault", owner, agent_name>>

as_u8(count) == count % (U8_MAX + 1)

PositionPda(vault_key, protocol, asset, position_count) ==
    <<"position", vault_key, protocol \o asset, as_u8(position_count)>>

VaultKeys == {VaultPda(o, n) : o \in Owners, n \in AgentNames}

PositionKeys ==
    {PositionPda(v, p, a, c) : v \in VaultKeys, p \in Protocols, a \in Assets, c \in 0..U8_MAX}

find_bump(key) == 255

(***************************************************************************)
(* The account store.                                                      *)
(***************************************************************************)
Store(accounts, key, data) ==
    [k \in DOMAIN accounts \cup {key} |-> IF k = key THEN data ELSE accounts[k]]

Close(accounts, key) == [k \in DOMAIN accounts \ {key} |-> accounts[k]]

(***************************************************************************)
(* Arithmetic of the handlers.  `a += b` and `a -= b` on an unsigned       *)
(* integer panic when the build has overflow checks and wrap otherwise;    *)
(* saturating_sub never does either.                                       *)
(***************************************************************************)
add_assign(overflow_checks, a, b, max) ==
    [panic |-> overflow_checks /\ a + b > max, value |-> (a + b) % (max + 1)]

sub_assign(overflow_checks, a, b, max) ==
    [panic |-> overflow_checks /\ a < b, value |-> (a - b) % (max + 1)]

\* wrapping_sub in place of saturating_sub: a value below the principal gives
\* a large delta instead of zero.
wrapping_sub(a, b) == (a - b) % (U64_MAX + 1)

saturating_sub(a, b) == IF a > b THEN a - b ELSE 0

(***************************************************************************)
(* Results.  Ok, the errors of the framework's account validation, and     *)
(* the panic of an overflowing operation.  The program's own error codes   *)
(* (InvalidApy, PositionClosed, InsufficientBalance) are declared and      *)
(* returned by no instruction.                                             *)
(***************************************************************************)
MoluscoError == {"InvalidApy", "PositionClosed", "InsufficientBalance"}

Outcome(err, vs, ps) == [err |-> err, vaults |-> vs, positions |-> ps]

Rejected(err) == Outcome(err, vaults, positions)

(***************************************************************************)
(* initialize_vault                                                        *)
(***************************************************************************)
\* InitializeVault with `init_if_needed` in place of `init`: an existing vault
\* is accepted and written over.
InitializeVault_if_needed(owner, agent_name) == "Ok"

InitializeVault(owner, agent_name) ==
    IF VaultPda(owner, agent_name) \in DOMAIN vaults THEN "AccountAlreadyInUse"
    ELSE "Ok"

\* initialize_vault that leaves created_at at zero instead of reading the clock.
initialize_vault_no_clock(owner, agent_name) ==
    LET key == VaultPda(owner, agent_name)
        vault == [owner |-> owner,
                  agent_name |-> agent_name,
                  total_value_locked |-> 0,
                  position_count |-> 0,
                  created_at |-> 0,
                  last_rebalance |-> 0,
                  bump |-> find_bump(key)]
    IN  IF InitializeVault(owner, agent_name) # "Ok"
        THEN Rejected(InitializeVault(owner, agent_name))
        ELSE Outcome("Ok", Store(vaults, key, vault), positions)

initialize_vault(owner, agent_name) ==
    LET key == VaultPda(owner, agent_name)
        vault == [owner |-> owner,
                  agent_name |-> agent_name,
                  total_value_locked |-> 0,
                  position_count |-> 0,
                  created_at |-> now,
                  last_rebalance |-> 0,
                  bump |-> find_bump(key)]
    IN  IF InitializeVault(owner, agent_name) # "Ok"
        THEN Rejected(InitializeVault(owner, agent_name))
        ELSE Outcome("Ok", Store(vaults, key, vault), positions)

(***************************************************************************)
(* open_position                                                           *)
(***************************************************************************)
\* OpenPosition without the constraint vault.owner == owner.key().
OpenPosition_any_signer(owner, vault_key, protocol, asset) ==
    IF vault_key \notin DOMAIN vaults THEN "AccountNotInitialized"
    ELSE IF PositionPda(vault_key, protocol, asset, vaults[vault_key].position_count)
                \in DOMAIN positions
         THEN "AccountAlreadyInUse"
    ELSE "Ok"

\* OpenPosition with `init_if_needed` in place of `init`: an address that
\* holds a position is accepted and written over.
OpenPosition_if_needed(owner, vault_key, protocol, asset) ==
    IF vault_key \notin DOMAIN vaults THEN "AccountNotInitialized"
    ELSE IF ~(vaults[vault_key].owner = owner) THEN "ConstraintRaw"
    ELSE "Ok"

OpenPosition(owner, vault_key, protocol, asset) ==
    IF vault_key \notin DOMAIN vaults THEN "AccountNotInitialized"
    ELSE IF PositionPda(vault_key, protocol, asset, vaults[vault_key].position_count)
                \in DOMAIN positions
         THEN "AccountAlreadyInUse"
    ELSE IF ~(vaults[vault_key].owner = owner) THEN "ConstraintRaw"
    ELSE "Ok"

\* vault_aggregates without the write of total_value_locked.
vault_aggregates_count_only(vault, position_count, total_value_locked) ==
    [vault EXCEPT !.position_count = position_count]

vault_aggregates(vault, position_count, total_value_locked) ==
    [vault EXCEPT !.position_count = position_count,
                  !.total_value_locked = total_value_locked]

open_position(overflow_checks, owner, vault_key, protocol, strategy, asset, amount, target_apy) ==
    IF OpenPosition(owner, vault_key, protocol, asset) # "Ok"
    THEN Rejected(OpenPosition(owner, vault_key, protocol, asset))
    ELSE
    LET vault == vaults[vault_key]
        key == PositionPda(vault_key, protocol, asset, vault.position_count)
        position == [owner |-> owner,
                     vault |-> vault_key,
                     protocol |-> protocol,
                     strategy |-> strategy,
                     asset |-> asset,
                     amount |-> amount,
                     target_apy |-> target_apy,
                     opened_at |-> now,
                     last_update |-> now,
                     is_active |-> TRUE,
                     accumulated_yield |-> 0,
                     bump |-> find_bump(key)]
        count == add_assign(overflow_checks, vault.position_count, 1, U16_MAX)
        tvl == add_assign(overflow_checks, vault.total_value_locked, amount, U64_MAX)
    IN  IF count.panic \/ tvl.panic
        THEN Rejected("ProgramFailedToComplete")
        ELSE Outcome("Ok",
                     Store(vaults, vault_key, vault_aggregates(vault, count.value, tvl.value)),
                     Store(positions, key, position))

(***************************************************************************)
(* update_position                                                         *)
(***************************************************************************)
\* UpdatePosition without the constraint on position.owner.
UpdatePosition_no_constraint(owner, position_key) ==
    IF position_key \notin DOMAIN positions THEN "AccountNotInitialized" ELSE "Ok"

UpdatePosition(owner, position_key) ==
    IF position_key \notin DOMAIN positions THEN "AccountNotInitialized"
    ELSE IF ~(positions[position_key].owner = owner) THEN "ConstraintRaw"
    ELSE "Ok"

\* position_yield that also refreshes opened_at.
position_yield_and_opened_at(position, accumulated_yield, unix_timestamp) ==
    [position EXCEPT !.accumulated_yield = accumulated_yield,
                     !.last_update = unix_timestamp,
                     !.opened_at = unix_timestamp]

\* position_yield that also moves the principal to the running total.
position_yield_rebased(position, accumulated_yield, unix_timestamp) ==
    [position EXCEPT !.accumulated_yield = accumulated_yield,
                     !.last_update = unix_timestamp,
                     !.amount = accumulated_yield]

position_yield(position, accumulated_yield, unix_timestamp) ==
    [position EXCEPT !.accumulated_yield = accumulated_yield,
                     !.last_update = unix_timestamp]

update_position(overflow_checks, owner, position_key, current_value) ==
    IF UpdatePosition(owner, position_key) # "Ok"
    THEN Rejected(UpdatePosition(owner, position_key))
    ELSE
    LET position == positions[position_key]
        yield_earned == saturating_sub(current_value, position.amount)
        acc == add_assign(overflow_checks, position.accumulated_yield, yield_earned, U64_MAX)
    IN  IF acc.panic
        THEN Rejected("ProgramFailedToComplete")
        ELSE Outcome("Ok", vaults,
                     Store(positions, position_key,
                           position_yield(position, acc.value, now)))

(***************************************************************************)
(* close_position                                                          *)
(***************************************************************************)
\* ClosePosition without the constraint position.vault == vault.key().
ClosePosition_any_vault(owner, vault_key, position_key) ==
    IF vault_key \notin DOMAIN vaults THEN "AccountNotInitialized"
    ELSE IF position_key \notin DOMAIN positions THEN "AccountNotInitialized"
    ELSE IF ~(vaults[vault_key].owner = owner) THEN "ConstraintRaw"
    ELSE IF ~(positions[position_key].owner = owner) THEN "ConstraintRaw"
    ELSE "Ok"

ClosePosition(owner, vault_key, position_key) ==
    IF vault_key \notin DOMAIN vaults THEN "AccountNotInitialized"
    ELSE IF position_key \notin DOMAIN positions THEN "AccountNotInitialized"
    ELSE IF ~(vaults[vault_key].owner = owner) THEN "ConstraintRaw"
    ELSE IF ~(positions[position_key].owner = owner) THEN "ConstraintRaw"
    ELSE IF ~(positions[position_key].vault = vault_key) THEN "ConstraintRaw"
    ELSE "Ok"

close_position(overflow_checks, owner, vault_key, position_key) ==
    IF ClosePosition(owner, vault_key, position_key) # "Ok"
    THEN Rejected(ClosePosition(owner, vault_key, position_key))
    ELSE
    LET vault == vaults[vault_key]
        position == [positions[position_key] EXCEPT !.is_active = FALSE]
        count == sub_assign(overflow_checks, vault.position_count, 1, U16_MAX)
        tvl == sub_assign(overflow_checks, vault.total_value_locked, position.amount, U64_MAX)
    IN  IF count.panic \/ tvl.panic
        THEN Rejected("ProgramFailedToComplete")
        ELSE Outcome("Ok",
                     Store(vaults, vault_key, vault_aggregates(vault, count.value, tvl.value)),
                     Close(positions, position_key))

(***************************************************************************)
(* record_rebalance                                                        *)
(***************************************************************************)
RecordRebalance(owner, vault_key) ==
    IF vault_key \notin DOMAIN vaults THEN "AccountNotInitialized"
    ELSE IF ~(vaults[vault_key].owner = owner) THEN "ConstraintRaw"
    ELSE "Ok"

\* record_rebalance that also restarts created_at.
record_rebalance_restarting(owner, vault_key) ==
    IF RecordRebalance(owner, vault_key) # "Ok"
    THEN Rejected(RecordRebalance(owner, vault_key))
    ELSE Outcome("Ok",
                 Store(vaults, vault_key,
                       [vaults[vault_key] EXCEPT !.last_rebalance = now, !.created_at = now]),
                 positions)

record_rebalance(owner, vault_key) ==
    IF RecordRebalance(owner, vault_key) # "Ok"
    THEN Rejected(RecordRebalance(owner, vault_key))
    ELSE Outcome("Ok",
                 Store(vaults, vault_key, [vaults[vault_key] EXCEPT !.last_rebalance = now]),
                 positions)

(***************************************************************************)
(* The state machine: one instruction per step, committed whole or not at  *)
(* all, and the clock.                                                     *)
(***************************************************************************)
Init ==
    /\ now = 1
    /\ vaults = <<>>
    /\ positions = <<>>
    /\ last = [op |-> "none", err |-> "Ok"]

Process(op, out) ==
    /\ Cardinality(DOMAIN out.vaults) + Cardinality(DOMAIN out.positions) <= MaxAccounts
    /\ vaults' = out.vaults
    /\ positions' = out.positions
    /\ last' = [op |-> op, err |-> out.err]
    /\ UNCHANGED now

InitializeVaultIx ==
    \E owner \in Owners, agent_name \in AgentNames :
        Process("initialize_vault", initialize_vault(owner, agent_name))

OpenPositionIx ==
    \E owner \in Signers, vault_key \in VaultKeys, protocol \in Protocols,
       strategy \in Strategies, asset \in Assets, amount \in Amounts,
       target_apy \in TargetApys :
        \E out \in {open_position(overflow_checks, owner, vault_key, protocol, strategy,
                                      asset, amount, target_apy) :
                            overflow_checks \in BOOLEAN} :
            Process("open_position", out)

UpdatePositionIx ==
    \E owner \in Signers, position_key \in PositionKeys, current_value \in CurrentValues :
        \E out \in {update_position(overflow_checks, owner, position_key, current_value) :
                        overflow_checks \in BOOLEAN} :
            Process("update_position", out)

ClosePositionIx ==
    \E owner \in Signers, vault_key \in VaultKeys, position_key \in PositionKeys :
        \E out \in {close_position(overflow_checks, owner, vault_key, position_key) :
                        overflow_checks \in BOOLEAN} :
            Process("close_position", out)

RecordRebalanceIx ==
    \E owner \in Signers, vault_key \in VaultKeys :
        Process("record_rebalance", record_rebalance(owner, vault_key))

Tick ==
    /\ now + 1 \in Times
    /\ now' = now + 1
    /\ UNCHANGED <<vaults, positions, last>>

Next ==
    \/ InitializeVaultIx
    \/ OpenPositionIx
    \/ UpdatePositionIx
    \/ ClosePositionIx
    \/ RecordRebalanceIx
    \/ Tick

Spec == Init /\ [][Next]_vars

(***************************************************************************)
(* What the claims speak of.                                               *)
(***************************************************************************)
ActivePositions(vault_key) ==
    {k \in DOMAIN positions : positions[k].vault = vault_key /\ positions[k].is_active}

RECURSIVE SumAmount(_)
SumAmount(keys) ==
    IF keys = {} THEN 0
    ELSE LET k == CHOOSE x \in keys : TRUE
         IN  positions[k].amount + SumAmount(keys \ {k})

Builds == BOOLEAN

Changed == vaults' # vaults \/ positions' # positions

\* C1: in every reachable state, every vault's total_value_locked equals the
\* sum of amount over the active positions that reference the vault.
C1_TvlIsSumOfActiveAmounts ==
    \A v \in DOMAIN vaults :
        vaults[v].total_value_locked = SumAmount(ActivePositions(v))

\* C2: in every reachable state, every vault's position_count equals the
\* number of active positions that reference the vault.
C2_CountIsNumberOfActive ==
    \A v \in DOMAIN vaults :
        vaults[v].position_count = Cardinality(ActivePositions(v))

\* C3: once a position has been closed, a close_position by its owner on it
\* fails with PositionClosed and leaves the vault's total_value_locked and
\* position_count as they are.  Stated on every step that closes a position:
\* in the state the step leads to, the second close has that outcome.
C3_SecondCloseIsPositionClosed ==
    [][\A k \in DOMAIN positions \ DOMAIN positions' :
         \A o \in Signers, v \in VaultKeys, b \in Builds :
            (positions[k].owner = o /\ positions[k].vault = v)
               => /\ (close_position(b, o, v, k).err = "PositionClosed")'
                  /\ (close_position(b, o, v, k).vaults = vaults)']_vars

\* C4: once a position has been closed, an update_position by its owner on
\* it fails with PositionClosed and changes no accumulated_yield and no
\* last_update.  Stated on every step that closes a position: in the state
\* the step leads to, the update has that outcome.
C4_UpdateAfterCloseIsPositionClosed ==
    [][\A k \in DOMAIN positions \ DOMAIN positions' :
         \A o \in Signers, cv \in CurrentValues, b \in Builds :
            positions[k].owner = o
               => /\ (update_position(b, o, k, cv).err = "PositionClosed")'
                  /\ (update_position(b, o, k, cv).positions = positions)']_vars

(***************************************************************************)
(* The owner recorded on the accounts an instruction names.                *)
(***************************************************************************)
NotVaultOwner(signer, vault_key) ==
    vault_key \in DOMAIN vaults /\ vaults[vault_key].owner # signer

NotPositionOwner(signer, position_key) ==
    position_key \in DOMAIN positions /\ positions[position_key].owner # signer

Unchanged(out) == out.vaults = vaults /\ out.positions = positions

\* C5 as the spec states it: every open_position, update_position,
\* close_position and record_rebalance of a signer that is not the owner
\* recorded on the vault or position it names fails with the violation of the
\* owner constraint (the spec's Unauthorized), and changes nothing.
C5_NotOwnerIsUnauthorized ==
    \A s \in Signers, b \in Builds :
        /\ \A v \in VaultKeys, p \in Protocols, st \in Strategies, a \in Assets,
              amt \in Amounts, apy \in TargetApys :
              NotVaultOwner(s, v)
                 => LET out == open_position(b, s, v, p, st, a, amt, apy)
                    IN  out.err = "ConstraintRaw" /\ Unchanged(out)
        /\ \A k \in PositionKeys, cv \in CurrentValues :
              NotPositionOwner(s, k)
                 => LET out == update_position(b, s, k, cv)
                    IN  out.err = "ConstraintRaw" /\ Unchanged(out)
        /\ \A v \in VaultKeys, k \in PositionKeys :
              (NotVaultOwner(s, v) \/ NotPositionOwner(s, k))
                 => LET out == close_position(b, s, v, k)
                    IN  out.err = "ConstraintRaw" /\ Unchanged(out)
        /\ \A v \in VaultKeys :
              NotVaultOwner(s, v)
                 => LET out == record_rebalance(s, v)
                    IN  out.err = "ConstraintRaw" /\ Unchanged(out)

\* C5 amended: every such instruction fails and changes nothing.  The failure
\* is the violation of the owner constraint when every account the
\* instruction names exists and, for open_position, the address of the new
\* position is free; otherwise it is the account error that is checked
\* before the constraint (account not initialized, address already in use).
C5_NotOwnerIsRejected ==
    \A s \in Signers, b \in Builds :
        /\ \A v \in VaultKeys, p \in Protocols, st \in Strategies, a \in Assets,
              amt \in Amounts, apy \in TargetApys :
              NotVaultOwner(s, v)
                 => LET out == open_position(b, s, v, p, st, a, amt, apy)
                        free == PositionPda(v, p, a, vaults[v].position_count)
                                   \notin DOMAIN positions
                    IN  /\ Unchanged(out)
                        /\ out.err = IF free THEN "ConstraintRaw" ELSE "AccountAlreadyInUse"
        /\ \A k \in PositionKeys, cv \in CurrentValues :
              NotPositionOwner(s, k)
                 => LET out == update_position(b, s, k, cv)
                    IN  out.err = "ConstraintRaw" /\ Unchanged(out)
        /\ \A v \in VaultKeys, k \in PositionKeys :
              (NotVaultOwner(s, v) \/ NotPositionOwner(s, k))
                 => LET out == close_position(b, s, v, k)
                        exist == v \in DOMAIN vaults /\ k \in DOMAIN positions
                    IN  /\ Unchanged(out)
                        /\ out.err = IF exist THEN "ConstraintRaw" ELSE "AccountNotInitialized"
        /\ \A v \in VaultKeys :
              NotVaultOwner(s, v)
                 => LET out == record_rebalance(s, v)
                    IN  out.err = "ConstraintRaw" /\ Unchanged(out)

\* C5 witness: a signer other than the owner has called update_position on a
\* position with accrued yield, and the owner constraint has rejected it.
C5_Witness ==
    /\ last = [op |-> "update_position", err |-> "ConstraintRaw"]
    /\ \E k \in DOMAIN positions : positions[k].accumulated_yield > 0

\* C6: a successful update_position(position, current_value) sets
\* accumulated_yield to its previous value plus max(0, current_value - amount),
\* amount being the principal recorded at open.
C6_YieldIsPreviousPlusDelta ==
    \A s \in Signers, k \in DOMAIN positions, cv \in CurrentValues, b \in Builds :
        LET out == update_position(b, s, k, cv)
            yield_delta == IF cv < positions[k].amount THEN 0 ELSE cv - positions[k].amount
        IN  out.err = "Ok"
               => out.positions[k].accumulated_yield
                     = positions[k].accumulated_yield + yield_delta

\* C7: no update_position decreases the accumulated_yield of a position.
C7_YieldNeverDecreases ==
    [][last'.op = "update_position"
          => \A k \in DOMAIN positions \cap DOMAIN positions' :
                positions'[k].accumulated_yield >= positions[k].accumulated_yield]_vars

\* C8: update_position leaves every vault as it is, creates and closes no
\* position, and changes no field of a position other than accumulated_yield
\* and last_update.
C8_UpdateFrame ==
    [][last'.op = "update_position"
          => /\ vaults' = vaults
             /\ DOMAIN positions' = DOMAIN positions
             /\ \A k \in DOMAIN positions :
                   positions'[k] =
                      [positions[k] EXCEPT
                          !.accumulated_yield = positions'[k].accumulated_yield,
                          !.last_update = positions'[k].last_update]]_vars

\* C8 witness: an update_position has succeeded on a position of a vault that
\* holds value: yield has accrued, at a time after the position was opened.
C8_Witness ==
    /\ last = [op |-> "update_position", err |-> "Ok"]
    /\ \E k \in DOMAIN positions :
          /\ positions[k].accumulated_yield > 0
          /\ positions[k].last_update > positions[k].opened_at
          /\ vaults[positions[k].vault].total_value_locked > 0

\* C9: every instruction is all or nothing.  A rejected instruction changes
\* no vault and no position; a step that creates a position adds 1 to the
\* position_count and its amount to the total_value_locked of its vault, a
\* step that closes one subtracts them (in the width of the fields), and the
\* aggregates of a vault change in no other step.
C9_AllOrNothing ==
    [][/\ (last'.err # "Ok" => ~Changed)
       /\ \A k \in DOMAIN positions' \ DOMAIN positions :
             LET v == positions'[k].vault
             IN  /\ v \in DOMAIN vaults
                 /\ vaults'[v].position_count
                       = (vaults[v].position_count + 1) % (U16_MAX + 1)
                 /\ vaults'[v].total_value_locked
                       = (vaults[v].total_value_locked + positions'[k].amount)
                            % (U64_MAX + 1)
       /\ \A k \in DOMAIN positions \ DOMAIN positions' :
             LET v == positions[k].vault
             IN  /\ vaults'[v].position_count
                       = (vaults[v].position_count - 1) % (U16_MAX + 1)
                 /\ vaults'[v].total_value_locked
                       = (vaults[v].total_value_locked - positions[k].amount)
                            % (U64_MAX + 1)
       /\ \A v \in DOMAIN vaults :
             (\/ vaults'[v].position_count # vaults[v].position_count
              \/ vaults'[v].total_value_locked # vaults[v].total_value_locked)
                => \E k \in (DOMAIN positions' \ DOMAIN positions)
                              \cup (DOMAIN positions \ DOMAIN positions') :
                      (IF k \in DOMAIN positions THEN positions[k] ELSE positions'[k]).vault
                         = v]_vars

\* C9 witness: an open_position has been rejected for an arithmetic failure
\* (the panic of an overflowing `+=`) in a vault that holds a position.
C9_Witness ==
    /\ last = [op |-> "open_position", err |-> "ProgramFailedToComplete"]
    /\ \E k \in DOMAIN positions :
          vaults[positions[k].vault].total_value_locked = positions[k].amount

\* C10: initialize_vault for an (owner, agent_name) pair that has a vault
\* fails with the address collision on creation (the spec's DuplicateVault)
\* and changes nothing; every vault is stored at the address of its own
\* (owner, agent_name), so no pair has two vaults.
C10_DuplicateVaultRejected ==
    /\ \A o \in Signers, n \in AgentNames :
          VaultPda(o, n) \in DOMAIN vaults
             => LET out == initialize_vault(o, n)
                IN  out.err = "AccountAlreadyInUse" /\ Unchanged(out)
    /\ \A k \in DOMAIN vaults : k = VaultPda(vaults[k].owner, vaults[k].agent_name)
    /\ \A k1, k2 \in DOMAIN vaults :
          (vaults[k1].owner = vaults[k2].owner
              /\ vaults[k1].agent_name = vaults[k2].agent_name) => k1 = k2

\* C10 witness: initialize_vault has been rejected for a vault that holds
\* value and has recorded a rebalance.
C10_Witness ==
    /\ last = [op |-> "initialize_vault", err |-> "AccountAlreadyInUse"]
    /\ \E k \in DOMAIN vaults :
          vaults[k].total_value_locked > 0 /\ vaults[k].last_rebalance > 0

\* C11: a successful initialize_vault creates, at the address of its
\* (owner, agent_name), a vault with owner the signer, agent_name the name
\* supplied, total_value_locked 0, position_count 0 and created_at the current
\* time; a vault appears in no other way, and no step changes the owner or the
\* agent_name of a vault or removes it.
C11_InitializeVaultFields ==
    /\ [](\A o \in Signers, n \in AgentNames :
             LET out == initialize_vault(o, n)
             IN  out.err = "Ok"
                    => LET vault == out.vaults[VaultPda(o, n)]
                       IN  /\ VaultPda(o, n) \notin DOMAIN vaults
                           /\ vault.owner = o
                           /\ vault.agent_name = n
                           /\ vault.total_value_locked = 0
                           /\ vault.position_count = 0
                           /\ vault.created_at = now)
    /\ [][/\ \A k \in DOMAIN vaults' \ DOMAIN vaults :
                /\ last' = [op |-> "initialize_vault", err |-> "Ok"]
                /\ \E o \in Signers, n \in AgentNames :
                      /\ k = VaultPda(o, n)
                      /\ vaults' = initialize_vault(o, n).vaults
          /\ \A k \in DOMAIN vaults :
                /\ k \in DOMAIN vaults'
                /\ vaults'[k].owner = vaults[k].owner
                /\ vaults'[k].agent_name = vaults[k].agent_name]_vars

\* C11 witness: a vault has just been initialized, at a time after the start,
\* beside a vault of the same owner that holds a position.
C11_Witness ==
    /\ last = [op |-> "initialize_vault", err |-> "Ok"]
    /\ \E k \in DOMAIN vaults :
          /\ vaults[k].created_at = now /\ now > 1
          /\ vaults[k].total_value_locked = 0 /\ vaults[k].position_count = 0
    /\ \E k \in DOMAIN vaults : vaults[k].total_value_locked > 0

\* C12: the slot index of a vault (its position_count, from which the address
\* of its next position is derived) never decreases, and a step that opens a
\* position in the vault increases it: the slot indices of successive opens
\* increase and none is used twice.  The open at the last index of the width
\* (position_count = U16_MAX) is set aside: what it does is C20's matter.
C12_SlotIndexIncreases ==
    [][\A v \in DOMAIN vaults :
          LET opened == \E k \in DOMAIN positions' \ DOMAIN positions :
                           positions'[k].vault = v
          IN  \/ opened /\ vaults[v].position_count = U16_MAX
              \/ IF opened
                 THEN vaults'[v].position_count > vaults[v].position_count
                 ELSE vaults'[v].position_count >= vaults[v].position_count]_vars

(***************************************************************************)
(* Two identical updates in a row.  Applied(o, k, cv): the step is a       *)
(* successful update_position(k, cv) signed by o.  Repeated(o, k, cv, b):  *)
(* the same call made again, in build b, succeeds and leaves               *)
(* accumulated_yield as the first call left it.                            *)
(***************************************************************************)
Applied(o, k, cv) ==
    /\ last' = [op |-> "update_position", err |-> "Ok"]
    /\ now' = now
    /\ \E b \in Builds :
          LET out == update_position(b, o, k, cv)
          IN  out.err = "Ok" /\ out.positions = positions'

Repeated(o, k, cv, b) ==
    (LET out == update_position(b, o, k, cv)
     IN  /\ out.err = "Ok"
         /\ out.positions[k].accumulated_yield = positions[k].accumulated_yield)'

\* C13 as the spec states it: whenever two identical updates in a row leave
\* accumulated_yield as one of them leaves it, current_value equals
\* position.amount plus the delta of the first of them.
C13_IdempotentOnlyAtAmountPlusDelta ==
    [][\A o \in Signers, k \in DOMAIN positions, cv \in CurrentValues :
          (Applied(o, k, cv) /\ \E b \in Builds : Repeated(o, k, cv, b))
             => LET previous_delta ==
                        IF cv < positions[k].amount THEN 0 ELSE cv - positions[k].amount
                IN  cv = positions[k].amount + previous_delta]_vars

\* C13 amended: two identical successful updates in a row leave
\* accumulated_yield as one of them leaves it exactly when current_value is at
\* most position.amount (the delta is 0): if they do, current_value <= amount;
\* and if current_value <= amount, the repeated update succeeds and leaves
\* accumulated_yield as it was.
C13_IdempotentIffNoYield ==
    [][\A o \in Signers, k \in DOMAIN positions, cv \in CurrentValues :
          Applied(o, k, cv)
             => /\ (\E b \in Builds : Repeated(o, k, cv, b))
                      => cv <= positions[k].amount
                /\ cv <= positions[k].amount
                      => \A b \in Builds : Repeated(o, k, cv, b)]_vars

\* C13 witness: the only position there is has been updated, at a time after
\* it was opened, with values that do not exceed its principal: it has no
\* yield.
C13_Witness ==
    /\ last = [op |-> "update_position", err |-> "Ok"]
    /\ \E k \in DOMAIN positions :
          /\ DOMAIN positions = {k}
          /\ positions[k].amount = U64_MAX
          /\ positions[k].last_update > positions[k].opened_at
          /\ positions[k].accumulated_yield = 0

\* C14: the amount, the owner and the vault of a position are those recorded
\* by the open_position that created it and no step changes them while the
\* position exists; the amount added to the vault's total_value_locked by the
\* open is the amount recorded, and the amount subtracted by the close is the
\* amount recorded (both in the width of the field).
C14_AmountOwnerVaultFixed ==
    [][/\ \A k \in DOMAIN positions \cap DOMAIN positions' :
             /\ positions'[k].amount = positions[k].amount
             /\ positions'[k].owner = positions[k].owner
             /\ positions'[k].vault = positions[k].vault
       /\ \A k \in DOMAIN positions' \ DOMAIN positions :
             LET v == positions'[k].vault
             IN  /\ last' = [op |-> "open_position", err |-> "Ok"]
                 /\ positions'[k].amount \in Amounts
                 /\ positions'[k].owner = vaults[v].owner
                 /\ vaults'[v].total_value_locked
                       = (vaults[v].total_value_locked + positions'[k].amount)
                            % (U64_MAX + 1)
       /\ \A k \in DOMAIN positions \ DOMAIN positions' :
             LET v == positions[k].vault
             IN  /\ last' = [op |-> "close_position", err |-> "Ok"]
                 /\ vaults'[v].total_value_locked
                       = (vaults[v].total_value_locked - positions[k].amount)
                            % (U64_MAX + 1)]_vars

\* C14 witness: a rebalance has been recorded on a vault whose position has
\* been updated, with yield, after it was opened; the vault's
\* total_value_locked is still the amount of the position.
C14_Witness ==
    /\ last = [op |-> "record_rebalance", err |-> "Ok"]
    /\ \E k \in DOMAIN positions :
          /\ positions[k].accumulated_yield > 0
          /\ positions[k].last_update > positions[k].opened_at
          /\ vaults[positions[k].vault].last_rebalance > positions[k].opened_at
          /\ vaults[positions[k].vault].total_value_locked = positions[k].amount

\* C15: record_rebalance by the owner of a vault that exists succeeds, sets
\* the vault's last_rebalance to the current time, and changes no other field
\* of the vault, no other vault and no position; no step of record_rebalance
\* does anything else.
C15_RecordRebalanceFrame ==
    /\ [](\A v \in DOMAIN vaults :
             LET out == record_rebalance(vaults[v].owner, v)
             IN  /\ out.err = "Ok"
                 /\ out.positions = positions
                 /\ out.vaults = [vaults EXCEPT ![v].last_rebalance = now])
    /\ [][last'.op = "record_rebalance"
             => /\ positions' = positions
                /\ DOMAIN vaults' = DOMAIN vaults
                /\ \A v \in DOMAIN vaults :
                      \/ vaults'[v] = vaults[v]
                      \/ /\ last'.err = "Ok"
                         /\ vaults'[v] = [vaults[v] EXCEPT !.last_rebalance = now]]_vars

\* C15 witness: a rebalance has just been recorded, at a time after the
\* vault was created, on a vault that holds a position.
C15_Witness ==
    /\ last = [op |-> "record_rebalance", err |-> "Ok"]
    /\ \E v \in DOMAIN vaults :
          /\ vaults[v].last_rebalance = now
          /\ vaults[v].last_rebalance > vaults[v].created_at
          /\ vaults[v].position_count > 0
          /\ vaults[v].total_value_locked > 0

\* C16: close_position(vault, position) is rejected and changes nothing
\* unless the signer is the owner recorded on both and position.vault is the
\* vault given; a close that is accepted changes no vault other than the one
\* the position refers to.
C16_CloseOnlyInParentVault ==
    \A s \in Signers, v \in VaultKeys, k \in PositionKeys, b \in Builds :
        LET out == close_position(b, s, v, k)
        IN  \/ out.err # "Ok" /\ Unchanged(out)
            \/ /\ vaults[v].owner = s
               /\ positions[k].owner = s
               /\ positions[k].vault = v
               /\ \A v2 \in DOMAIN vaults :
                     v2 # positions[k].vault => out.vaults[v2] = vaults[v2]

\* C16 witness: an owner has two vaults and a position in one of them, and a
\* close_position has been rejected by a constraint.
C16_Witness ==
    /\ last = [op |-> "close_position", err |-> "ConstraintRaw"]
    /\ \E v1, v2 \in DOMAIN vaults :
          /\ v1 # v2
          /\ vaults[v1].owner = vaults[v2].owner
          /\ \E k \in DOMAIN positions :
                positions[k].vault = v1 /\ positions[k].owner = vaults[v2].owner

\* C17: in every reachable state, every position that exists has an amount
\* of at most the total_value_locked of its vault, and its vault has a
\* position_count of at least 1: the subtractions of close_position never
\* underflow.
C17_CloseNeverUnderflows ==
    \A k \in DOMAIN positions :
        LET v == positions[k].vault
        IN  /\ positions[k].amount <= vaults[v].total_value_locked
            /\ vaults[v].position_count >= 1

\* C18: in every reachable state every position refers to a vault that
\* exists and has the owner recorded on that vault; an open_position is
\* accepted only from the owner recorded on the vault, and records the signer
\* as the owner of the position.
C18_PositionOwnerIsVaultOwner ==
    /\ \A k \in DOMAIN positions :
          /\ positions[k].vault \in DOMAIN vaults
          /\ positions[k].owner = vaults[positions[k].vault].owner
    /\ \A s \in Signers, v \in VaultKeys, p \in Protocols, st \in Strategies,
          a \in Assets, amt \in Amounts, apy \in TargetApys, b \in Builds :
          LET out == open_position(b, s, v, p, st, a, amt, apy)
              k == PositionPda(v, p, a, vaults[v].position_count)
          IN  out.err = "Ok"
                 => /\ vaults[v].owner = s
                    /\ out.positions[k].owner = s
                    /\ out.positions[k].vault = v

\* C18 witness: an open_position has been rejected by the owner constraint
\* while the vault holds a position of its owner, updated and rebalanced
\* since.
C18_Witness ==
    /\ last = [op |-> "open_position", err |-> "ConstraintRaw"]
    /\ \E k \in DOMAIN positions :
          /\ positions[k].owner = vaults[positions[k].vault].owner
          /\ positions[k].last_update > positions[k].opened_at
          /\ vaults[positions[k].vault].last_rebalance > 0

(***************************************************************************)
(* The key of a position: its vault, protocol, asset and the slot byte of  *)
(* its address.                                                            *)
(***************************************************************************)
SlotByte(position_key) == position_key[4]

KeyOf(position_key) ==
    <<positions[position_key].vault, positions[position_key].protocol,
      positions[position_key].asset, SlotByte(position_key)>>

\* C19: no two positions that exist share the key (vault, protocol, asset,
\* slot byte), every position sits at the address derived from its key, and
\* an open_position whose derived address holds a position is rejected and
\* changes nothing; after a step that closes a position, an open_position by
\* the owner for the same vault, protocol and asset, when the vault's
\* position_count gives the same slot byte, takes the address again.
C19_KeyHeldByOnePosition ==
    /\ [](/\ \A k1, k2 \in DOMAIN positions : KeyOf(k1) = KeyOf(k2) => k1 = k2
          /\ \A k \in DOMAIN positions :
                /\ SlotByte(k) \in 0..U8_MAX
                /\ k = PositionPda(positions[k].vault, positions[k].protocol,
                                   positions[k].asset, SlotByte(k))
          /\ \A s \in Signers, v \in DOMAIN vaults, p \in Protocols, st \in Strategies,
                a \in Assets, amt \in Amounts, apy \in TargetApys, b \in Builds :
                PositionPda(v, p, a, vaults[v].position_count) \in DOMAIN positions
                   => LET out == open_position(b, s, v, p, st, a, amt, apy)
                      IN  out.err = "AccountAlreadyInUse" /\ Unchanged(out))
    /\ [][\A k \in DOMAIN positions \ DOMAIN positions' :
             \A v \in DOMAIN vaults, o \in Signers, p \in Protocols, a \in Assets :
                (/\ positions[k].vault = v
                 /\ positions[k].owner = o
                 /\ positions[k].protocol = p
                 /\ positions[k].asset = a
                 /\ (as_u8(vaults[v].position_count) = SlotByte(k))')
                   => \E st \in Strategies, amt \in Amounts, apy \in TargetApys,
                         b \in Builds :
                         (LET out == open_position(b, o, v, p, st, a, amt, apy)
                          IN  out.err = "Ok" /\ k \in DOMAIN out.positions)']_vars

\* C19 witness: an open_position has been rejected because the address
\* derived for it holds a position.
C19_Witness ==
    /\ last = [op |-> "open_position", err |-> "AccountAlreadyInUse"]
    /\ \E v \in DOMAIN vaults, p \in Protocols, a \in Assets :
          PositionPda(v, p, a, vaults[v].position_count) \in DOMAIN positions

\* C20: every step that opens a position leaves the position_count of its
\* vault greater than before and its total_value_locked at least what it was:
\* no open commits a value reduced modulo the width of the field.
C20_OpenNeverWraps ==
    [][\A k \in DOMAIN positions' \ DOMAIN positions :
          LET v == positions'[k].vault
          IN  /\ vaults'[v].position_count > vaults[v].position_count
              /\ vaults'[v].total_value_locked >= vaults[v].total_value_locked]_vars

=============================================================================
